---- MODULE Spec2Model ----
(***************************************************************************)
(* Verification model of the cryptopals-rust workspace:                    *)
(*   - challenges/src/set2.rs       length probing, byte-at-a-time         *)
(*                                   suffix recovery, ECB detection        *)
(*   - challenges/src/set6/challenge47_48.rs   Bleichenbacher attack       *)
(*   - serialize/src/lib.rs         base64 / hex codecs                    *)
(* Bytes are the integers 0..255, byte strings are sequences of bytes,     *)
(* text strings are sequences of character codes.                          *)
(***************************************************************************)
EXTENDS Integers, Sequences, FiniteSets, TLC

VARIABLES
    oracle,   \* set2: the oracle under attack (key, prefix, suffix, mode, iv)
    op,       \* set2: the operation that produced res ("new" before any)
    res,      \* set2: the Result that operation returned
    u,        \* serialize: the byte sequence under test
    ser_op,   \* serialize: the conversion that produced ser_res
    ser_res,  \* serialize: the Result of that conversion
    bb,       \* set6: the state of challenge47_48::run (a record)
    c41,      \* set6: the server and the state of challenge41::run (a record)
    dh        \* dh: the state of server::Server::new and of the Server (a record)

vars == <<oracle, op, res, u, ser_op, ser_res, bb, c41, dh>>

(***************************************************************************)
(* Results.  Ok(v) and Err are the two values of Rust's Result; Panic is   *)
(* an unwinding panic (index or slice out of range, capacity overflow).    *)
(* Overflow(v) is an unsigned subtraction a - b with a < b: a panic when   *)
(* the build checks overflow, the wrapped value 2^64 + v otherwise; v < 0  *)
(* is that value's representative modulo 2^64.                             *)
(***************************************************************************)
Ok(v) == [tag |-> "Ok", val |-> v]

Err == [tag |-> "Err"]

Panic == [tag |-> "Panic"]

Overflow(v) == [tag |-> "Overflow", val |-> v]

IsOk(r) == r.tag = "Ok"

\* usize subtraction a - b
SubUsize(a, b) == IF a >= b THEN Ok(a - b) ELSE Overflow(a - b)

(***************************************************************************)
(* Bounds of the model.                                                    *)
(***************************************************************************)
\* block size of the cipher (aes::BLOCK_SIZE, scaled down)
BLOCK_SIZE == 2

\* longest hidden prefix of an oracle
MaxPrefixLen == 4

\* longest hidden suffix of an oracle
MaxSuffixLen == 4

\* longest hidden material (prefix plus suffix) of a randomized oracle
MaxRandomHidden == 1

Byte == 0..255

\* byte values the hidden suffix is built from: both probe constants of
\* prefix_length and a third value
SuffixBytes == {0, 1, 2}

\* fill bytes of the hidden prefix
PrefixBytes == {0, 9}

(***************************************************************************)
(* Byte-string helpers.                                                    *)
(***************************************************************************)
Repeat(b, n) == [i \in 1..n |-> b]

\* u[from..] with a 0-based start, as a Rust slice
SliceFrom(s, from) == SubSeq(s, from + 1, Len(s))

\* u[from..to] with 0-based bounds
Slice(s, from, to) == SubSeq(s, from + 1, to)

\* number of chunks of s.chunks(n)
NumChunks(s, n) == (Len(s) + n - 1) \div n

\* s.chunks(n).nth(j), 0-based; <<>> stands for None (a chunk is never empty)
ChunkNth(s, n, j) ==
    IF j < NumChunks(s, n)
    THEN SubSeq(s, j * n + 1, IF (j + 1) * n <= Len(s) THEN (j + 1) * n ELSE Len(s))
    ELSE <<>>

RECURSIVE Xor(_, _)
Xor(a, b) ==
    IF a = 0 THEN b
    ELSE IF b = 0 THEN a
    ELSE ((a + b) % 2) + 2 * Xor(a \div 2, b \div 2)

XorBlock(x, y) == [i \in 1..Len(x) |-> Xor(x[i], y[i])]

(***************************************************************************)
(* The block cipher collaborator (crate aes): a keyed permutation of       *)
(* blocks, PKCS padding, and the modes ECB, CBC and CTR.                   *)
(***************************************************************************)
\* a keyed permutation of the blocks: the bytes are rotated by one place
\* and each goes through a bijection of 0..255 chosen by the key
EncryptBlock(key, blk) ==
    [i \in 1..BLOCK_SIZE |-> (5 * blk[(i % BLOCK_SIZE) + 1] + key[i]) % 256]

\* pad: 1..BLOCK_SIZE bytes, each the number of bytes appended
Pad(s) ==
    LET k == BLOCK_SIZE - (Len(s) % BLOCK_SIZE)
    IN  s \o Repeat(k, k)

RECURSIVE EcbBlocks(_, _, _)
EcbBlocks(key, pt, j) ==
    IF j * BLOCK_SIZE >= Len(pt) THEN <<>>
    ELSE EncryptBlock(key, Slice(pt, j * BLOCK_SIZE, (j + 1) * BLOCK_SIZE))
            \o EcbBlocks(key, pt, j + 1)

EcbEncrypt(key, pt) == EcbBlocks(key, Pad(pt), 0)

RECURSIVE CbcBlocks(_, _, _, _)
CbcBlocks(key, pt, j, prev) ==
    IF j * BLOCK_SIZE >= Len(pt) THEN <<>>
    ELSE LET c == EncryptBlock(key,
                    XorBlock(Slice(pt, j * BLOCK_SIZE, (j + 1) * BLOCK_SIZE), prev))
         IN  c \o CbcBlocks(key, pt, j + 1, c)

CbcEncrypt(key, iv, pt) == CbcBlocks(key, Pad(pt), 0, iv)

\* the j-th counter block: the nonce with the block counter in its last byte
CounterBlock(nonce, j) ==
    [i \in 1..BLOCK_SIZE |-> IF i = BLOCK_SIZE THEN (nonce[i] + j) % 256 ELSE nonce[i]]

\* CTR is a stream cipher: no padding, the ciphertext is as long as the input
CtrEncrypt(key, nonce, pt) ==
    [j \in 1..Len(pt) |->
        Xor(pt[j], EncryptBlock(key, CounterBlock(nonce, (j - 1) \div BLOCK_SIZE))
                        [((j - 1) % BLOCK_SIZE) + 1])]

(***************************************************************************)
(* Oracles (module prefix_suffix_oracles): a record                        *)
(*   [mode, fresh, key, iv, prefix, suffix, max_input]                     *)
(* encrypting prefix ++ input ++ suffix.  A deterministic oracle keeps one *)
(* iv for its lifetime; an oracle with fresh = TRUE draws a new iv on      *)
(* every call, `call` being the ordinal identity of the call.  An oracle   *)
(* with max_input >= 0 fails on every input longer than max_input; an      *)
(* oracle of mode "FIXED" returns the first ciphertext block only.         *)
(***************************************************************************)
\* max_input of an oracle that accepts inputs of every length
NoLimit == -1

IvOfCall(o, call) ==
    IF o.fresh
    THEN [i \in 1..BLOCK_SIZE |-> (o.iv[i] + ((1 + call) \div (256 ^ (i - 1)))) % 256]
    ELSE o.iv

OracleEncrypt(o, input, call) ==
    LET pt == o.prefix \o input \o o.suffix
    IN  IF o.max_input # NoLimit /\ Len(input) > o.max_input THEN Err
        ELSE CASE o.mode = "ECB" -> Ok(EcbEncrypt(o.key, pt))
               [] o.mode = "CBC" -> Ok(CbcEncrypt(o.key, IvOfCall(o, call), pt))
               [] o.mode = "CTR" -> Ok(CtrEncrypt(o.key, IvOfCall(o, call), pt))
               [] o.mode = "FIXED" -> Ok(SubSeq(EcbEncrypt(o.key, pt), 1, BLOCK_SIZE))

\* helper::ceil_div(n, k): (number of k-blocks covering n, bytes missing to
\* fill the last of them)
ceil_div(n, k) == <<(n + k - 1) \div k, (k - (n % k)) % k>>

SetMin(S) == CHOOSE x \in S : \A y \in S : x <= y

(***************************************************************************)
(* set2.rs: uses_ecb                                                       *)
(***************************************************************************)
\* chunks(BLOCK_SIZE).skip(skip).take(2), then blocks[0] == blocks[1]
UsesEcbSkipping(o, skip) ==
    LET r == OracleEncrypt(o, Repeat(0, 3 * BLOCK_SIZE), 0)
    IN  IF ~IsOk(r) THEN Err
        ELSE IF NumChunks(r.val, BLOCK_SIZE) < skip + 2 THEN Panic
        ELSE Ok(ChunkNth(r.val, BLOCK_SIZE, skip) = ChunkNth(r.val, BLOCK_SIZE, skip + 1))

uses_ecb_mut(o) == UsesEcbSkipping(o, 0)

uses_ecb(o) == UsesEcbSkipping(o, 1)

(***************************************************************************)
(* set2.rs: the length prober.  `base` numbers the oracle calls.           *)
(***************************************************************************)
\* the input lengths i in 1..BLOCK_SIZE whose output length differs from
\* the output length for the empty input; a failed call counts as no change
LengthChanges(o, initial, base) ==
    {i \in 1..BLOCK_SIZE :
        LET r == OracleEncrypt(o, Repeat(0, i), base + i)
        IN  IsOk(r) /\ Len(r.val) # initial}

\* the probe taking a failed oracle call for a change of length
prefix_plus_suffix_length_failing(o, base) ==
    LET r0 == OracleEncrypt(o, <<>>, base)
    IN  IF ~IsOk(r0) THEN Err
        ELSE LET initial == Len(r0.val)
                 found == {i \in 1..BLOCK_SIZE :
                             LET r == OracleEncrypt(o, Repeat(0, i), base + i)
                             IN  ~IsOk(r) \/ Len(r.val) # initial}
             IN  IF found = {} THEN Err ELSE SubUsize(initial, SetMin(found))

\* the probe with the range 1..BLOCK_SIZE taken without its last length
prefix_plus_suffix_length_mut(o, base) ==
    LET r0 == OracleEncrypt(o, <<>>, base)
    IN  IF ~IsOk(r0) THEN Err
        ELSE LET initial == Len(r0.val)
                 found == LengthChanges(o, initial, base) \ {BLOCK_SIZE}
             IN  IF found = {} THEN Err ELSE SubUsize(initial, SetMin(found))

prefix_plus_suffix_length(o, base) ==
    LET r0 == OracleEncrypt(o, <<>>, base)
    IN  IF ~IsOk(r0) THEN Err
        ELSE LET initial == Len(r0.val)
                 found == LengthChanges(o, initial, base)
             IN  IF found = {} THEN Err ELSE SubUsize(initial, SetMin(found))

\* the indices at which the zipped chunk sequences differ
DifferingBlocks(x, y) ==
    LET n == IF NumChunks(x, BLOCK_SIZE) <= NumChunks(y, BLOCK_SIZE)
             THEN NumChunks(x, BLOCK_SIZE) ELSE NumChunks(y, BLOCK_SIZE)
    IN  {j \in 0..(n - 1) : ChunkNth(x, BLOCK_SIZE, j) # ChunkNth(y, BLOCK_SIZE, j)}

\* the probe sending the same one-byte input twice
prefix_blocks_count_mut(o, base) ==
    LET r0 == OracleEncrypt(o, <<0>>, base)
        r1 == OracleEncrypt(o, <<0>>, base + 1)
    IN  IF ~IsOk(r0) \/ ~IsOk(r1) THEN Err
        ELSE LET d == DifferingBlocks(r0.val, r1.val)
             IN  IF d = {} THEN Err ELSE Ok(SetMin(d))

prefix_blocks_count(o, base) ==
    LET r0 == OracleEncrypt(o, <<0>>, base)
        r1 == OracleEncrypt(o, <<1>>, base + 1)
    IN  IF ~IsOk(r0) \/ ~IsOk(r1) THEN Err
        ELSE LET d == DifferingBlocks(r0.val, r1.val)
             IN  IF d = {} THEN Err ELSE Ok(SetMin(d))

\* the loop of prefix_length's closure `helper`, from iteration i on
RECURSIVE HelperLoop(_, _, _, _, _, _)
HelperLoop(o, n, k, i, prev, base) ==
    IF i >= BLOCK_SIZE THEN Ok(BLOCK_SIZE)
    ELSE LET cur == OracleEncrypt(o, Repeat(k, BLOCK_SIZE - (i + 1)), base + 1 + i)
         IN  IF ~IsOk(cur) THEN Err
             ELSE IF ChunkNth(prev, BLOCK_SIZE, n) # ChunkNth(cur.val, BLOCK_SIZE, n)
                  THEN Ok(i)
                  ELSE HelperLoop(o, n, k, i + 1, cur.val, base)

helper(o, n, k, base) ==
    LET prev == OracleEncrypt(o, Repeat(k, BLOCK_SIZE), base)
    IN  IF ~IsOk(prev) THEN Err ELSE HelperLoop(o, n, k, 0, prev.val, base)

\* n * BLOCK_SIZE + min(h0, h1), h0 and h1 being the results of the two
\* calls of helper
PrefixLengthOf(n, h0, h1) ==
    IF ~IsOk(h0) \/ ~IsOk(h1) THEN Err
    ELSE Ok(n * BLOCK_SIZE + (IF h0.val <= h1.val THEN h0.val ELSE h1.val))

\* prefix_length after prefix_blocks_count has returned n
PrefixLengthFrom(o, base, k0, k1, n) ==
    IF ~IsOk(n) THEN Err
    ELSE PrefixLengthOf(n.val, helper(o, n.val, k0, base + 2),
                        helper(o, n.val, k1, base + 3 + BLOCK_SIZE))

\* n * BLOCK_SIZE + min(helper(k0), helper(k1))
PrefixLengthProbing(o, base, k0, k1) ==
    PrefixLengthFrom(o, base, k0, k1, prefix_blocks_count(o, base))

prefix_length_mut(o, base) == PrefixLengthProbing(o, base, 0, 0)

prefix_length(o, base) == PrefixLengthProbing(o, base, 0, 1)

\* number of oracle calls prefix_length numbers
PrefixLengthCalls == 2 * BLOCK_SIZE + 4

\* prefix_plus_suffix_length()? - prefix_length()?, t and p being the results
\* of the two calls
SuffixLengthOf(t, p) ==
    IF t.tag \in {"Err", "Panic"} THEN t
    ELSE IF ~IsOk(p) THEN p
    ELSE IF t.tag = "Overflow" THEN Overflow(t.val - p.val)
    ELSE SubUsize(t.val, p.val)

suffix_length(o, base) ==
    SuffixLengthOf(prefix_plus_suffix_length(o, base),
                   prefix_length(o, base + BLOCK_SIZE + 1))

\* number of oracle calls suffix_length numbers
SuffixLengthCalls == 3 * BLOCK_SIZE + 5

(***************************************************************************)
(* set2.rs: decrypt_suffix                                                 *)
(***************************************************************************)
\* unstable_features::all_bytes(): the byte values in increasing order
LastByte == 255

\* the reference ciphertexts: one oracle call per left shift 0..BLOCK_SIZE-1
ReferenceCiphertexts(o, input, base) ==
    [ls \in 0..(BLOCK_SIZE - 1) |-> OracleEncrypt(o, SliceFrom(input, ls), base + ls)]

\* one trial of the loop `for u in all_bytes()`: the outcome of pushing the
\* candidate b and comparing the target block with the reference block
TryByte(o, ref, block, input, b, base) ==
    IF Len(ref) < (block + 1) * BLOCK_SIZE THEN "panic"
    ELSE LET c == OracleEncrypt(o, input \o <<b>>, base + b)
         IN  IF ~IsOk(c) THEN "err"
             ELSE IF Len(c.val) < (block + 1) * BLOCK_SIZE THEN "panic"
             ELSE IF Slice(ref, block * BLOCK_SIZE, (block + 1) * BLOCK_SIZE)
                        = Slice(c.val, block * BLOCK_SIZE, (block + 1) * BLOCK_SIZE)
                  THEN "match"
                  ELSE "next"

\* the loop `for u in all_bytes()` at one suffix position: Ok(b) for the
\* first candidate whose target block equals the reference block, Ok(-1)
\* when all candidates are exhausted without a match
GuessByte(o, ref, block, input, base) ==
    IF \A b \in 0..LastByte : TryByte(o, ref, block, input, b, base) = "next"
    THEN Ok(-1)
    ELSE LET first == CHOOSE b \in 0..LastByte :
                        /\ TryByte(o, ref, block, input, b, base) # "next"
                        /\ \A b2 \in 0..(b - 1) :
                              TryByte(o, ref, block, input, b2, base) = "next"
             out == TryByte(o, ref, block, input, first, base)
         IN  CASE out = "match" -> Ok(first)
               [] out = "err" -> Err
               [] out = "panic" -> Panic

\* the loop `for i in 0..suffix_len`, from position i on; at a position
\* where no candidate matched nothing is pushed and the loop goes on
RECURSIVE SuffixLoop(_, _, _, _, _, _, _, _)
SuffixLoop(o, refs, prefix_blocks, suffix_len, i, input, suffix, base) ==
    IF i >= suffix_len THEN Ok(suffix)
    ELSE LET block == prefix_blocks + (i \div BLOCK_SIZE)
             left_shift == i % BLOCK_SIZE
             g == GuessByte(o, refs[left_shift].val, block,
                            SliceFrom(input, left_shift),
                            base + i * (LastByte + 1))
         IN  IF ~IsOk(g) THEN g
             ELSE IF g.val < 0
                  THEN SuffixLoop(o, refs, prefix_blocks, suffix_len, i + 1,
                                  input, suffix, base)
                  ELSE SuffixLoop(o, refs, prefix_blocks, suffix_len, i + 1,
                                  input \o <<g.val>>, suffix \o <<g.val>>, base)

\* decrypt_suffix after prefix_length has returned pl and suffix_length sl
DecryptSuffixFrom(o, fill, pl, sl) ==
    IF ~IsOk(pl) THEN pl
    ELSE IF sl.tag \in {"Err", "Panic"} THEN sl
    ELSE IF sl.tag = "Overflow" THEN Panic   \* Vec::with_capacity(suffix_len)
    ELSE LET cd == ceil_div(pl.val, BLOCK_SIZE)
             input == Repeat(0, cd[2] + fill)
             base == PrefixLengthCalls + SuffixLengthCalls
             refs == ReferenceCiphertexts(o, input, base)
         IN  IF \E ls \in DOMAIN refs : ~IsOk(refs[ls]) THEN Err
             ELSE SuffixLoop(o, refs, cd[1], sl.val, 0, input, <<>>,
                             base + BLOCK_SIZE)

\* decrypt_suffix with `fill` zero bytes after the prefix padding in the
\* initial input
DecryptSuffixFilling(o, fill) ==
    DecryptSuffixFrom(o, fill, prefix_length(o, 0),
                      suffix_length(o, PrefixLengthCalls))

decrypt_suffix_mut(o) == DecryptSuffixFilling(o, BLOCK_SIZE)

decrypt_suffix(o) == DecryptSuffixFilling(o, BLOCK_SIZE - 1)

(***************************************************************************)
(* The oracles the model builds.                                           *)
(***************************************************************************)
SeqsUpTo(S, n) == UNION {[1..k -> S] : k \in 0..n}

TheKey == [i \in 1..BLOCK_SIZE |-> (91 * i + 7) % 256]

TheIv == [i \in 1..BLOCK_SIZE |-> (29 * i + 3) % 256]

\* (mode, fresh): ECB, CBC with a fixed iv, CTR with a fixed nonce, and CBC
\* with an iv drawn per call
OracleKinds == {<<"ECB", FALSE>>, <<"CBC", FALSE>>, <<"CTR", FALSE>>, <<"CBC", TRUE>>}

Oracles ==
    {[mode |-> k[1], fresh |-> k[2], key |-> TheKey, iv |-> TheIv,
      prefix |-> Repeat(pb, pn), suffix |-> sfx, max_input |-> NoLimit] :
        k \in OracleKinds, pb \in PrefixBytes, pn \in 0..MaxPrefixLen,
        sfx \in SeqsUpTo(SuffixBytes, MaxSuffixLen)}

OracleOk(o) ==
    /\ (Len(o.prefix) = 0 => o.prefix = Repeat(0, 0))
    /\ (o.fresh => Len(o.prefix) + Len(o.suffix) <= MaxRandomHidden)

Idle == [pc |-> "idle"]

InitOracle ==
    /\ oracle \in {o \in Oracles : OracleOk(o)}
    /\ op = "new"
    /\ res = Ok(0)
    /\ u = <<>>
    /\ ser_op = "idle"
    /\ ser_res = Ok(0)
    /\ bb = Idle
    /\ c41 = Idle
    /\ dh = Idle

Run(name, r) ==
    /\ op = "new"
    /\ op' = name
    /\ res' = r
    /\ UNCHANGED <<oracle, u, ser_op, ser_res, bb, c41, dh>>

UsesEcb == Run("uses_ecb", uses_ecb(oracle))

PrefixPlusSuffixLength == Run("prefix_plus_suffix_length", prefix_plus_suffix_length(oracle, 0))

PrefixBlocksCount == Run("prefix_blocks_count", prefix_blocks_count(oracle, 0))

PrefixLength == Run("prefix_length", prefix_length(oracle, 0))

SuffixLength == Run("suffix_length", suffix_length(oracle, 0))

DecryptSuffix == Run("decrypt_suffix", decrypt_suffix(oracle))

NextOracle ==
    \/ UsesEcb
    \/ PrefixPlusSuffixLength
    \/ PrefixBlocksCount
    \/ PrefixLength
    \/ SuffixLength
    \/ DecryptSuffix

SpecOracle == InitOracle /\ [][NextOracle]_vars

\* misbehaving oracles: inputs above a length limit fail, or the output has
\* one length whatever the input
FaultyOracles ==
    {[mode |-> md, fresh |-> FALSE, key |-> TheKey, iv |-> TheIv,
      prefix |-> Repeat(0, pn), suffix |-> Repeat(1, sn), max_input |-> lim] :
        md \in {"ECB", "CBC", "CTR", "FIXED"}, pn \in 0..(2 * BLOCK_SIZE),
        sn \in 0..BLOCK_SIZE, lim \in (0..BLOCK_SIZE) \cup {NoLimit}}

FaultyOk(o) == o.mode = "FIXED" \/ o.max_input # NoLimit

InitFaulty ==
    /\ oracle \in {o \in FaultyOracles : FaultyOk(o)}
    /\ op = "new"
    /\ res = Ok(0)
    /\ u = <<>>
    /\ ser_op = "idle"
    /\ ser_res = Ok(0)
    /\ bb = Idle
    /\ c41 = Idle
    /\ dh = Idle

SpecFaulty == InitFaulty /\ [][NextOracle]_vars

(***************************************************************************)
(* Properties of the set2 attacks, checked under SpecOracle.               *)
(***************************************************************************)
Deterministic(o) == ~o.fresh

\* C1: for every deterministic ECB oracle encrypting prefix ++ input ++
\* suffix (the prefix possibly empty, possibly not block-aligned),
\* decrypt_suffix returns exactly the suffix.
C1_DecryptSuffixReturnsSuffix ==
    (op = "decrypt_suffix" /\ oracle.mode = "ECB")
        => res = Ok(oracle.suffix)

\* a suffix of several full blocks behind a prefix that is not block-aligned
C1_Witness ==
    /\ op = "decrypt_suffix"
    /\ oracle.mode = "ECB"
    /\ Len(oracle.prefix) % BLOCK_SIZE # 0
    /\ Len(oracle.suffix) >= 2 * BLOCK_SIZE
    /\ res = Ok(oracle.suffix)

\* C2: for every deterministic oracle (ECB, CBC or CTR) with a prefix of
\* length p and a suffix of length s, prefix_length returns exactly p,
\* whatever the bytes of prefix and suffix are.
C2_PrefixLengthExact ==
    (op = "prefix_length" /\ Deterministic(oracle))
        => res = Ok(Len(oracle.prefix))

\* the first suffix byte equals a probe constant, the prefix is not aligned
C2_Witness ==
    /\ op = "prefix_length"
    /\ Deterministic(oracle)
    /\ Len(oracle.prefix) % BLOCK_SIZE # 0
    /\ Len(oracle.suffix) > 0
    /\ oracle.suffix[1] = 0
    /\ res = Ok(Len(oracle.prefix))

\* C3: for every deterministic oracle (the test builds it in CTR mode) with a
\* prefix of length p and a suffix of length s, suffix_length returns
\* exactly s without failing.
C3_SuffixLengthExact ==
    (op = "suffix_length" /\ Deterministic(oracle))
        => res = Ok(Len(oracle.suffix))

\* C9: uses_ecb returns true iff the second and third blocks of the
\* ciphertext of three blocks of one repeated byte are equal, and so returns
\* true for every ECB oracle that prepends at most one block of prefix.
C9_UsesEcb ==
    op = "uses_ecb" =>
        LET ct == OracleEncrypt(oracle, Repeat(0, 3 * BLOCK_SIZE), 0).val
        IN  /\ res = Ok(Slice(ct, BLOCK_SIZE, 2 * BLOCK_SIZE)
                          = Slice(ct, 2 * BLOCK_SIZE, 3 * BLOCK_SIZE))
            /\ (oracle.mode = "ECB" /\ Len(oracle.prefix) <= BLOCK_SIZE)
                    => res = Ok(TRUE)

\* an ECB oracle with a non-empty prefix of at most one block
C9_Witness ==
    /\ op = "uses_ecb"
    /\ oracle.mode = "ECB"
    /\ Len(oracle.prefix) \in 1..BLOCK_SIZE
    /\ oracle.prefix[1] # 0
    /\ res = Ok(TRUE)

\* C10: if at some suffix position none of the 256 candidates matches,
\* decrypt_suffix returns an error: it never returns Ok with a suffix that
\* is missing that byte (shorter than the suffix_len positions it visited).
C10_NoMatchIsAnError ==
    (op = "decrypt_suffix" /\ IsOk(res))
        => Len(res.val) = suffix_length(oracle, PrefixLengthCalls).val

\* an oracle whose ciphertext is as long as the block-padded plaintext
Padded(o) == o.mode \in {"ECB", "CBC"}

\* C11: for every oracle whose ciphertext length is the block-padded length
\* of prefix ++ input ++ suffix, prefix_plus_suffix_length returns
\* |prefix| + |suffix|.
C11_PrefixPlusSuffixLength ==
    (op = "prefix_plus_suffix_length" /\ Padded(oracle))
        => res = Ok(Len(oracle.prefix) + Len(oracle.suffix))

\* hidden material that fills whole blocks, so that only the longest probe
\* changes the output length
C11_Witness ==
    /\ op = "prefix_plus_suffix_length"
    /\ oracle.mode = "CBC"
    /\ Len(oracle.prefix) % BLOCK_SIZE = 1
    /\ (Len(oracle.prefix) + Len(oracle.suffix)) % BLOCK_SIZE = 0
    /\ res = Ok(Len(oracle.prefix) + Len(oracle.suffix))

\* no input length in 1..BLOCK_SIZE gives an output whose length differs
\* from the output length for the empty input
NoLengthChange(o) ==
    \A i \in 1..BLOCK_SIZE :
        LET r == OracleEncrypt(o, Repeat(0, i), 0)
        IN  IsOk(r) => Len(r.val) = Len(OracleEncrypt(o, <<>>, 0).val)

\* C17: prefix_plus_suffix_length returns an error, and no length, when none
\* of the input lengths 1..block_size makes the output length differ from
\* the one for the empty input; a probe call that fails counts as no change.
C17_NoChangeIsAnError ==
    (op = "prefix_plus_suffix_length" /\ NoLengthChange(oracle)) => res = Err

\* a padding oracle whose only length change lies at a probe that fails
C17_Witness ==
    /\ op = "prefix_plus_suffix_length"
    /\ oracle.mode = "ECB"
    /\ oracle.max_input = BLOCK_SIZE - 1
    /\ (Len(oracle.prefix) + Len(oracle.suffix)) % BLOCK_SIZE = 0
    /\ NoLengthChange(oracle)
    /\ res = Err

\* the oracle answers both one-byte inputs [0] and [1]
AnswersOneByte(o) ==
    IsOk(OracleEncrypt(o, <<0>>, 0)) /\ IsOk(OracleEncrypt(o, <<1>>, 1))

\* the ciphertexts of [0] and [1] differ in their block j
BlockDiffers(o, j) ==
    LET x == OracleEncrypt(o, <<0>>, 0).val
        y == OracleEncrypt(o, <<1>>, 1).val
    IN  /\ j < NumChunks(x, BLOCK_SIZE)
        /\ j < NumChunks(y, BLOCK_SIZE)
        /\ ChunkNth(x, BLOCK_SIZE, j) # ChunkNth(y, BLOCK_SIZE, j)

\* no block of the ciphertext of [0] differs from its block in the
\* ciphertext of [1]
NoBlockDiffers(o) ==
    \A j \in 0..(NumChunks(OracleEncrypt(o, <<0>>, 0).val, BLOCK_SIZE) - 1) :
        ~BlockDiffers(o, j)

\* C18: for a deterministic ECB oracle with a prefix of p bytes
\* prefix_blocks_count returns floor(p / block_size); what it returns is the
\* index of the first ciphertext block that differs between the encryptions
\* of [0] and [1], and it returns an error when no block differs.
C18_PrefixBlocksCount ==
    (op = "prefix_blocks_count" /\ Deterministic(oracle) /\ AnswersOneByte(oracle)) =>
        /\ oracle.mode = "ECB" => res = Ok(Len(oracle.prefix) \div BLOCK_SIZE)
        /\ IsOk(res) => /\ BlockDiffers(oracle, res.val)
                        /\ \A j \in 0..(res.val - 1) : ~BlockDiffers(oracle, j)
        /\ NoBlockDiffers(oracle) => res = Err

\* an ECB oracle whose prefix fills whole blocks and reaches into the next
C18_Witness ==
    /\ op = "prefix_blocks_count"
    /\ oracle.mode = "ECB"
    /\ AnswersOneByte(oracle)
    /\ Len(oracle.prefix) > BLOCK_SIZE
    /\ Len(oracle.prefix) % BLOCK_SIZE # 0
    /\ res = Ok(1)

(***************************************************************************)
(* serialize/src/lib.rs.  A String is the sequence of its character codes. *)
(***************************************************************************)
\* longest byte sequence converted
MaxBytesLen == 4

\* byte values the converted sequences are built from
TestBytes == {0, 1, 63, 128, 175, 255}

TO_BASE64 ==
    <<65, 66, 67, 68, 69, 70, 71, 72, 73, 74,
      75, 76, 77, 78, 79, 80, 81, 82, 83, 84,
      85, 86, 87, 88, 89, 90, 97, 98, 99, 100,
      101, 102, 103, 104, 105, 106, 107, 108, 109, 110,
      111, 112, 113, 114, 115, 116, 117, 118, 119, 120,
      121, 122, 48, 49, 50, 51, 52, 53, 54, 55,
      56, 57, 43, 47>>

\* pairs <<digit, character>>, ordered by character
FROM_BASE64 ==
    <<<<62, 43>>, <<63, 47>>,
      <<52, 48>>, <<53, 49>>, <<54, 50>>, <<55, 51>>, <<56, 52>>, <<57, 53>>, <<58, 54>>, <<59, 55>>, <<60, 56>>, <<61, 57>>,
      <<0, 65>>, <<1, 66>>, <<2, 67>>, <<3, 68>>, <<4, 69>>, <<5, 70>>, <<6, 71>>, <<7, 72>>, <<8, 73>>, <<9, 74>>,
      <<10, 75>>, <<11, 76>>, <<12, 77>>, <<13, 78>>, <<14, 79>>, <<15, 80>>, <<16, 81>>, <<17, 82>>, <<18, 83>>, <<19, 84>>,
      <<20, 85>>, <<21, 86>>, <<22, 87>>, <<23, 88>>, <<24, 89>>, <<25, 90>>, <<26, 97>>, <<27, 98>>, <<28, 99>>, <<29, 100>>,
      <<30, 101>>, <<31, 102>>, <<32, 103>>, <<33, 104>>, <<34, 105>>, <<35, 106>>, <<36, 107>>, <<37, 108>>, <<38, 109>>, <<39, 110>>,
      <<40, 111>>, <<41, 112>>, <<42, 113>>, <<43, 114>>, <<44, 115>>, <<45, 116>>, <<46, 117>>, <<47, 118>>, <<48, 119>>, <<49, 120>>,
      <<50, 121>>, <<51, 122>>>>

\* the character '='
PadChar == 61

\* u8 shifts: bits shifted out are dropped
Shl(x, k) == (x * (2 ^ k)) % 256

Shr(x, k) == x \div (2 ^ k)

\* u8_to_base64: a digit above 63 fails the assertion
u8_to_base64(d) == TO_BASE64[d + 1]

\* the four characters of one chunk of 1..3 bytes
block_to_base64(block) ==
    LET a == block[1]
        b == IF Len(block) >= 2 THEN block[2] ELSE 0
        c == IF Len(block) >= 3 THEN block[3] ELSE 0
    IN  <<u8_to_base64(Shr(a, 2)),
          u8_to_base64((a % 4) * 16 + Shr(b, 4)),
          u8_to_base64((b % 16) * 4 + Shr(c, 6)),
          u8_to_base64(c % 64)>>

RECURSIVE Base64Blocks(_, _)
Base64Blocks(bytes, j) ==
    IF 3 * j >= Len(bytes) THEN <<>>
    ELSE block_to_base64(ChunkNth(bytes, 3, j)) \o Base64Blocks(bytes, j + 1)

to_base64(bytes) ==
    LET base64 == Base64Blocks(bytes, 0)
        n == Len(base64)
    IN  IF Len(bytes) % 3 = 1 THEN SubSeq(base64, 1, n - 2) \o <<PadChar, PadChar>>
        ELSE IF Len(bytes) % 3 = 2 THEN SubSeq(base64, 1, n - 1) \o <<PadChar>>
        ELSE base64

\* char::from_digit(d, 16): '0'..'9', 'a'..'f'
HexChar(d) == IF d < 10 THEN 48 + d ELSE 87 + d

\* the two digits of a byte, in the order to_hex pushes them
HexOfByte(b) == <<HexChar(Shr(b, 4)), HexChar(b % 16)>>

HexOfByteSwapped(b) == <<HexChar(b % 16), HexChar(Shr(b, 4))>>

to_hex_mut(bytes) ==
    [i \in 1..(2 * Len(bytes)) |-> HexOfByteSwapped(bytes[(i + 1) \div 2])[2 - (i % 2)]]

to_hex(bytes) ==
    [i \in 1..(2 * Len(bytes)) |-> HexOfByte(bytes[(i + 1) \div 2])[2 - (i % 2)]]

\* FROM_BASE64.binary_search_by(|&(_, d)| d.cmp(&c)) over the 1-based
\* half-open range lo..hi: the index found, or 0
RECURSIVE BinarySearch(_, _, _)
BinarySearch(c, lo, hi) ==
    IF lo >= hi THEN 0
    ELSE LET mid == lo + ((hi - lo) \div 2)
         IN  IF FROM_BASE64[mid][2] = c THEN mid
             ELSE IF FROM_BASE64[mid][2] < c THEN BinarySearch(c, mid + 1, hi)
             ELSE BinarySearch(c, lo, mid)

u8_from_base64(c) ==
    LET i == BinarySearch(c, 1, Len(FROM_BASE64) + 1)
    IN  IF i = 0 THEN Err ELSE Ok(FROM_BASE64[i][1])

\* the loop over digits.chunks(4), from chunk j on, appending to out
RECURSIVE DecodeChunks(_, _, _)
DecodeChunks(digits, j, out) ==
    IF 4 * j >= Len(digits) THEN Ok(out)
    ELSE LET b == ChunkNth(digits, 4, j)
         IN  IF Len(b) < 2 THEN Panic
             ELSE LET o1 == out \o <<Shl(b[1], 2) + Shr(b[2], 4)>>
                  IN  IF Len(b) = 2
                      THEN IF Shl(b[2], 4) # 0 THEN Err ELSE Ok(o1)
                      ELSE LET o2 == o1 \o <<Shl(b[2], 4) + Shr(b[3], 2)>>
                           IN  IF Len(b) = 3
                               THEN IF Shl(b[3], 6) # 0 THEN Err ELSE Ok(o2)
                               ELSE DecodeChunks(digits, j + 1,
                                        o2 \o <<Shl(b[3], 6) + b[4]>>)

from_base64(str) ==
    IF Len(str) % 4 # 0 THEN Err
    \* s.as_bytes()[n - 1] with n = 0: the subtraction panics, or wraps to an
    \* index that is out of range
    ELSE IF ~IsOk(SubUsize(Len(str), 1)) THEN Panic
    ELSE LET len == Len(str)
             n == IF str[len] = PadChar
                  THEN IF str[len - 1] = PadChar THEN len - 2 ELSE len - 1
                  ELSE len
             digits == [i \in 1..n |-> u8_from_base64(str[i])]
         IN  IF \E i \in 1..n : ~IsOk(digits[i]) THEN Err
             ELSE DecodeChunks([i \in 1..n |-> digits[i].val], 0, <<>>)

\* char::to_digit(16): decimal digits and letters a-f in either case
u8_from_hex(c) ==
    IF c \in 48..57 THEN Ok(c - 48)
    ELSE IF c \in 97..102 THEN Ok(c - 87)
    ELSE IF c \in 65..70 THEN Ok(c - 55)
    ELSE Err

from_hex(str) ==
    IF Len(str) % 2 # 0 THEN Err
    ELSE LET digits == [i \in 1..Len(str) |-> u8_from_hex(str[i])]
         IN  IF \E i \in 1..Len(str) : ~IsOk(digits[i]) THEN Err
             ELSE Ok([j \in 1..(Len(str) \div 2) |->
                        Shl(digits[2 * j - 1].val, 4) + digits[2 * j].val])

InitSerialize ==
    /\ u \in SeqsUpTo(TestBytes, MaxBytesLen)
    /\ ser_op = "new"
    /\ ser_res = Ok(<<>>)
    /\ oracle = Idle
    /\ op = "idle"
    /\ res = Ok(0)
    /\ bb = Idle
    /\ c41 = Idle
    /\ dh = Idle

Convert(from, name, r) ==
    /\ ser_op = from
    /\ ser_op' = name
    /\ ser_res' = r
    /\ UNCHANGED <<u, oracle, op, res, bb, c41, dh>>

ToBase64 == Convert("new", "to_base64", Ok(to_base64(u)))

FromBase64 == Convert("to_base64", "from_base64", from_base64(ser_res.val))

ToHex == Convert("new", "to_hex", Ok(to_hex(u)))

FromHex == Convert("to_hex", "from_hex", from_hex(ser_res.val))

NextSerialize ==
    \/ ToBase64
    \/ FromBase64
    \/ ToHex
    \/ FromHex

SpecSerialize == InitSerialize /\ [][NextSerialize]_vars

\* from_base64 on arbitrary strings: u is the string, a sequence of ASCII
\* characters
\* length of the last part of a string under test
MaxStrLen == 4

\* 'A', 'B', 'Q', '/', '=' and '!'
TestChars == {65, 66, 81, 47, PadChar, 33}

\* "", "QUJD" and "QU=D"
TestHeads == {<<>>, <<81, 85, 74, 68>>, <<81, 85, PadChar, 68>>}

InitDecode ==
    /\ \E h \in TestHeads : \E t \in SeqsUpTo(TestChars, MaxStrLen) : u = h \o t
    /\ ser_op = "new"
    /\ ser_res = Ok(<<>>)
    /\ oracle = Idle
    /\ op = "idle"
    /\ res = Ok(0)
    /\ bb = Idle
    /\ c41 = Idle
    /\ dh = Idle

\* from_base64(s)
Decode == Convert("new", "decode", from_base64(u))

\* to_base64 of the bytes from_base64 returned
Reencode ==
    /\ IsOk(ser_res)
    /\ Convert("decode", "reencode", Ok(to_base64(ser_res.val)))

NextDecode ==
    \/ Decode
    \/ Reencode

SpecDecode == InitDecode /\ [][NextDecode]_vars

(***************************************************************************)
(* Properties of the codecs, checked under SpecSerialize.                  *)
(***************************************************************************)
\* C7: for every byte sequence u, including the empty sequence and the
\* lengths that need '=' padding, from_base64(to_base64(u)) succeeds and
\* returns exactly u.
C7_Base64RoundTrip ==
    ser_op = "from_base64" => ser_res = Ok(u)

\* C8: for every byte sequence u, including the empty one,
\* from_hex(to_hex(u)) succeeds and returns exactly u, and to_hex emits two
\* hexadecimal digits per byte, the high nibble first.
C8_HexRoundTrip ==
    /\ ser_op = "from_hex" => ser_res = Ok(u)
    /\ ser_op = "to_hex" =>
          /\ Len(ser_res.val) = 2 * Len(u)
          /\ \A i \in 1..Len(u) :
                /\ u8_from_hex(ser_res.val[2 * i - 1]) = Ok(u[i] \div 16)
                /\ u8_from_hex(ser_res.val[2 * i]) = Ok(u[i] % 16)

\* a round trip of several bytes whose nibbles differ and need letter digits
C8_Witness ==
    /\ ser_op = "from_hex"
    /\ Len(u) >= 2
    /\ u[1] = 175
    /\ ser_res = Ok(u)

(***************************************************************************)
(* set6/challenge47_48.rs: the Bleichenbacher attack.                      *)
(* The RSA collaborator (crate rsa) is textbook RSA with e = 3; the        *)
(* arbitrary-precision integers are TLA+ integers, products being reduced  *)
(* or split so that no intermediate value leaves the checker's range.      *)
(***************************************************************************)
\* number of RSA keys the model generates
NumKeys == 2

\* number of padded plaintexts the model attacks per key
NumPlaintexts == 8

\* cap on the multipliers the searches try
MaxMultiplier == 20000

\* number of multipliers a search examines in one step
SearchWindow == 16

\* prime pairs of the generated keys: moduli of three bytes
KeyPrimes == <<<<257, 263>>, <<251, 269>>, <<263, 269>>, <<257, 269>>>>

PublicExponent == 3

\* (a * b) mod n for 0 <= a, b < n < 2^18
MulMod(a, b, n) == ((((a * (b \div 256)) % n) * 256) + a * (b % 256)) % n

\* x^e mod n by squaring; the half power h is bound once and used twice
RECURSIVE ModExp(_, _, _)
ModExp(x, e, n) ==
    IF e = 0 THEN 1 % n
    ELSE CHOOSE r \in {IF e % 2 = 1 THEN MulMod(MulMod(h, h, n), x % n, n)
                                    ELSE MulMod(h, h, n) :
                       h \in {ModExp(x, e \div 2, n)}} : TRUE

\* the inverse of a modulo n (a and n coprime), by the extended Euclid
\* recursion: Egcd(a, b) = <<g, x, y>> with a*x + b*y = g
RECURSIVE Egcd(_, _)
Egcd(a, b) ==
    IF b = 0 THEN <<a, 1, 0>>
    ELSE CHOOSE t \in {<<r[1], r[3], r[2] - (a \div b) * r[3]>> :
                       r \in {Egcd(b, a % b)}} : TRUE

InvMod(a, n) == Egcd(a % n, n)[2] % n

\* Rsa::generate: modulus n = p * q, private exponent d = e^-1 mod phi(n)
RsaGenerate(j) ==
    LET p == KeyPrimes[j][1]
        q == KeyPrimes[j][2]
    IN  [n |-> p * q, e |-> PublicExponent,
         d |-> InvMod(PublicExponent, (p - 1) * (q - 1))]

RsaEncrypt(rsa, x) == ModExp(x % rsa.n, rsa.e, rsa.n)

RsaDecrypt(rsa, x) == ModExp(x % rsa.n, rsa.d, rsa.n)

\* BigNum::bytes: the length of the big-endian byte representation
RECURSIVE NumBytes(_)
NumBytes(x) == IF x < 256 THEN 1 ELSE 1 + NumBytes(x \div 256)

ceil_quotient(a, b) == IF a % b = 0 THEN a \div b ELSE (a \div b) + 1

floor_quotient(a, b) == a \div b

\* B = 1 << 8 * (k - 2)
BOf(n) == 2 ^ (8 * (NumBytes(n) - 2))

\* the closure `oracle`: the top byte of the k - 1 byte cleartext is 2
PaddingOracle(rsa, ciphertext) ==
    RsaDecrypt(rsa, ciphertext) \div BOf(rsa.n) = 2

\* the closure `wrapped_oracle`: oracle(c * encrypt(s)); decrypt reduces
\* its argument modulo n, so the product is formed modulo n
wrapped_oracle(rsa, c, sv) ==
    PaddingOracle(rsa, MulMod(c, RsaEncrypt(rsa, sv), rsa.n))

RRangeExclusive(a, b, si, n, B) ==
    ceil_quotient(a * si - 3 * B + 1, n) .. (floor_quotient(b * si - 2 * B, n) - 1)

\* the integers r of the loop `while r <= U` of the interval update
RRange(a, b, si, n, B) ==
    ceil_quotient(a * si - 3 * B + 1, n) .. floor_quotient(b * si - 2 * B, n)

\* the pair pushed without the clamping to the previous interval
NewIntervalUnclamped(a, b, r, si, n, B) ==
    <<ceil_quotient(2 * B + r * n, si), floor_quotient((3 * B - 1) + r * n, si)>>

\* the pair pushed for one r: (max(a, lo), min(b, hi))
NewInterval(a, b, r, si, n, B) ==
    LET lo == ceil_quotient(2 * B + r * n, si)
        hi == floor_quotient((3 * B - 1) + r * n, si)
    IN  <<IF a >= lo THEN a ELSE lo, IF b <= hi THEN b ELSE hi>>

\* the lexicographic order of pairs
PairLess(x, y) == x[1] < y[1] \/ (x[1] = y[1] /\ x[2] < y[2])

\* Mi.sort(); Mi.dedup(): the pairs of S in increasing order, each once
RECURSIVE SortDedup(_)
SortDedup(S) ==
    IF S = {} THEN <<>>
    ELSE LET least == CHOOSE x \in S : \A y \in S : x = y \/ PairLess(x, y)
         IN  <<least>> \o SortDedup(S \ {least})

\* the interval update: M_i from M_{i-1} and s_i
UpdateIntervals(M, si, n, B) ==
    SortDedup(UNION {{NewInterval(M[j][1], M[j][2], r, si, n, B) :
                        r \in RRange(M[j][1], M[j][2], si, n, B)} :
                     j \in 1..Len(M)})

IsTerminalLoose(Mi) == Len(Mi) = 1

\* the test that ends the loop
IsTerminal(Mi) == Len(Mi) = 1 /\ Mi[1][1] = Mi[1][2]

\* padded plaintexts: integers of k - 1 bytes whose top byte is 2, the
\* largest of them included
Plaintexts(B) ==
    {2 * B + ((89 * j + 37) % B) : j \in 0..(NumPlaintexts - 1)} \cup {3 * B - 1}

\* si and U of step 2.c for the ratio ri
Step2cBounds(ri, a, b, n, B) ==
    <<ceil_quotient(2 * B + ri * n, b), ceil_quotient(3 * B + ri * n, a)>>

\* the search advancing by two: every other multiplier is never submitted
AcceptedInStride(rsa, c, from, limit) ==
    {sv \in from..(from + SearchWindow - 1) :
        sv < limit /\ (sv - from) % 2 = 0 /\ wrapped_oracle(rsa, c, sv)}

\* the accepted multipliers among the next SearchWindow ones from `from`
\* on, below `limit`
AcceptedIn(rsa, c, from, limit) ==
    {sv \in from..(from + SearchWindow - 1) : sv < limit /\ wrapped_oracle(rsa, c, sv)}

\* the padding oracle answers honestly, or rejects every query from
\* iteration deaf_from on (0: never)
Deaf(b) == b.deaf_from > 0 /\ b.i >= b.deaf_from

BBStart(rsa, m) ==
    [pc |-> "step2", rsa |-> rsa, B |-> BOf(rsa.n), m |-> m, deaf_from |-> 0,
     c |-> RsaEncrypt(rsa, m),
     M |-> <<<<2 * BOf(rsa.n), 3 * BOf(rsa.n) - 1>>>>,
     s_prev |-> 1, i |-> 1, si |-> 0, ri |-> 0, U |-> 0, result |-> Ok(0)]

InitBB ==
    /\ \E j \in 1..NumKeys :
         \E m \in Plaintexts(BOf(RsaGenerate(j).n)) :
            bb = BBStart(RsaGenerate(j), m)
    /\ oracle = Idle
    /\ op = "idle"
    /\ res = Ok(0)
    /\ u = <<>>
    /\ ser_op = "idle"
    /\ ser_res = Ok(0)
    /\ c41 = Idle
    /\ dh = Idle

BBStep(next) ==
    /\ bb' = next
    /\ UNCHANGED <<oracle, op, res, u, ser_op, ser_res, c41, dh>>

\* step 2.a: si = ceil(n / 3B)
Step2a ==
    /\ bb.pc = "step2"
    /\ bb.i = 1
    /\ BBStep([bb EXCEPT !.pc = "search", !.si = ceil_quotient(bb.rsa.n, 3 * bb.B)])

\* step 2.b starting over from the multiplier of step 2.a
Step2bRestart ==
    /\ bb.pc = "step2"
    /\ bb.i # 1
    /\ Len(bb.M) >= 2
    /\ BBStep([bb EXCEPT !.pc = "search", !.si = ceil_quotient(bb.rsa.n, 3 * bb.B)])

\* step 2.b: si = s_prev + 1
Step2b ==
    /\ bb.pc = "step2"
    /\ bb.i # 1
    /\ Len(bb.M) >= 2
    /\ BBStep([bb EXCEPT !.pc = "search", !.si = bb.s_prev + 1])

\* up to SearchWindow turns of `while !wrapped_oracle(&si) { si = si + 1 }`
\* of steps 2.a and 2.b: the loop ends at the first accepted multiplier
Search ==
    /\ bb.pc = "search"
    /\ bb.si <= MaxMultiplier
    /\ LET acc == IF Deaf(bb) THEN {}
                  ELSE AcceptedIn(bb.rsa, bb.c, bb.si, bb.si + SearchWindow)
       IN  IF acc # {}
           THEN BBStep([bb EXCEPT !.pc = "step3", !.si = SetMin(acc)])
           ELSE BBStep([bb EXCEPT !.si = bb.si + SearchWindow])

\* step 2.c: ri = ceil(2 * (b * s_prev - 2B) / n), si and U for that ri;
\* M_prev[0] does not exist when M_prev is empty
Step2c ==
    /\ bb.pc = "step2"
    /\ bb.i # 1
    /\ Len(bb.M) < 2
    /\ IF Len(bb.M) = 0
       THEN BBStep([bb EXCEPT !.pc = "panic", !.result = Panic])
       ELSE LET a == bb.M[1][1]
                b == bb.M[1][2]
                ri == ceil_quotient(2 * (b * bb.s_prev - 2 * bb.B), bb.rsa.n)
                sU == Step2cBounds(ri, a, b, bb.rsa.n, bb.B)
            IN  BBStep([bb EXCEPT !.pc = "search_c", !.ri = ri,
                                  !.si = sU[1], !.U = sU[2]])

\* up to SearchWindow turns of the loops of step 2.c: the inner loop ends at
\* the first accepted multiplier below U; when si reaches U the outer loop
\* goes on with ri + 1
SearchC ==
    /\ bb.pc = "search_c"
    /\ bb.si <= MaxMultiplier
    /\ LET acc == IF Deaf(bb) THEN {} ELSE AcceptedIn(bb.rsa, bb.c, bb.si, bb.U)
       IN  IF acc # {}
           THEN BBStep([bb EXCEPT !.pc = "step3", !.si = SetMin(acc)])
           ELSE IF bb.si + SearchWindow < bb.U
           THEN BBStep([bb EXCEPT !.si = bb.si + SearchWindow])
           ELSE LET sU == Step2cBounds(bb.ri + 1, bb.M[1][1], bb.M[1][2],
                                       bb.rsa.n, bb.B)
                IN  BBStep([bb EXCEPT !.ri = bb.ri + 1, !.si = sU[1], !.U = sU[2]])

\* compare_eq(&m, &Mi[0].0)
compare_eq(x, y) == IF x = y THEN Ok(y) ELSE Err

\* the interval update and the end of the iteration
Step3 ==
    /\ bb.pc = "step3"
    /\ LET Mi == UpdateIntervals(bb.M, bb.si, bb.rsa.n, bb.B)
       IN  IF IsTerminal(Mi)
           THEN BBStep([bb EXCEPT !.pc = "done", !.M = Mi,
                                  !.result = compare_eq(bb.m, Mi[1][1])])
           ELSE BBStep([bb EXCEPT !.pc = "step2", !.M = Mi, !.i = bb.i + 1,
                                  !.s_prev = bb.si])

NextBB ==
    \/ Step2a
    \/ Step2b
    \/ Step2c
    \/ Search
    \/ SearchC
    \/ Step3

SpecBB == InitBB /\ [][NextBB]_vars

\* the loop of run is sequential code: it takes its next step whenever it
\* has one
SpecBBFair == SpecBB /\ WF_vars(NextBB)

\* the engine against an oracle that stops accepting after iteration 1
InitBBDeaf ==
    /\ \E j \in 1..NumKeys :
         \E m \in Plaintexts(BOf(RsaGenerate(j).n)) :
            bb = [BBStart(RsaGenerate(j), m) EXCEPT !.deaf_from = 2]
    /\ oracle = Idle
    /\ op = "idle"
    /\ res = Ok(0)
    /\ u = <<>>
    /\ ser_op = "idle"
    /\ ser_res = Ok(0)
    /\ c41 = Idle
    /\ dh = Idle

SpecBBDeaf == InitBBDeaf /\ [][NextBB]_vars

(***************************************************************************)
(* set6/challenge41.rs: the server that decrypts every ciphertext but the  *)
(* one it holds, and run, which recovers the cleartext of that ciphertext  *)
(* from the decryption of ciphertext * encrypt(2) mod n.                   *)
(*   c41 = [pc, rsa, cleartext, ciphertext, asked, answer,                 *)
(*          t, altered_ciphertext, altered_cleartext, result]              *)
(***************************************************************************)
\* number of cleartexts the server may draw besides 0
NumCleartexts == 8

\* Option
None == [tag |-> "None"]

Some(v) == [tag |-> "Some", val |-> v]

\* `asked` before any call of decrypt
NoQuery == -1

\* BigNumTrait::gen_random(BITS - 1): a value below 2^(BITS - 1), which is
\* below every modulus of BITS bits
CleartextBound(n) == 2 ^ (8 * (NumBytes(n) - 1))

Cleartexts(n) ==
    {0} \cup {(27449 * j + 1) % CleartextBound(n) : j \in 0..(NumCleartexts - 1)}

\* Server::new with the j-th key and the cleartext m
ServerNew(j, m) ==
    [pc |-> "new", rsa |-> RsaGenerate(j), cleartext |-> m,
     ciphertext |-> RsaEncrypt(RsaGenerate(j), m),
     asked |-> NoQuery, answer |-> None,
     t |-> 0, altered_ciphertext |-> 0, altered_cleartext |-> 0, result |-> Ok(0)]

\* Server::decrypt refusing every ciphertext congruent to the stored one
ServerDecryptModN(s, ciphertext) ==
    IF ciphertext % s.rsa.n = s.ciphertext % s.rsa.n THEN None
    ELSE Some(RsaDecrypt(s.rsa, ciphertext))

\* Server::decrypt
ServerDecrypt(s, ciphertext) ==
    IF ciphertext = s.ciphertext THEN None
    ELSE Some(RsaDecrypt(s.rsa, ciphertext))

\* Server::verify_solution
ServerVerifySolution(s, candidate) == compare_eq(s.cleartext, candidate)

\* the ciphertexts a caller of Server::decrypt submits
Queries(s) ==
    {s.ciphertext, s.ciphertext + s.rsa.n, (s.ciphertext + 1) % s.rsa.n,
     MulMod(s.ciphertext, RsaEncrypt(s.rsa, 2), s.rsa.n), 0, 1}

\* the cleartext taken for half the altered cleartext as an integer
RecoveredCleartextHalving(altered_cleartext, t, n) == altered_cleartext \div 2

\* &(&altered_cleartext * t) % n
RecoveredCleartext(altered_cleartext, t, n) == MulMod(altered_cleartext, t, n)

Init41 ==
    /\ \E j \in 1..NumKeys :
         \E m \in Cleartexts(RsaGenerate(j).n) : c41 = ServerNew(j, m)
    /\ oracle = Idle
    /\ op = "idle"
    /\ res = Ok(0)
    /\ u = <<>>
    /\ ser_op = "idle"
    /\ ser_res = Ok(0)
    /\ bb = Idle
    /\ dh = Idle

Step41(next) ==
    /\ c41' = next
    /\ UNCHANGED <<oracle, op, res, u, ser_op, ser_res, bb, dh>>

\* a call of Server::decrypt with the ciphertext x
Query41 ==
    /\ c41.pc = "new"
    /\ c41.asked = NoQuery
    /\ \E x \in Queries(c41) :
         Step41([c41 EXCEPT !.asked = x, !.answer = ServerDecrypt(c41, x)])

\* run: t = 2^-1 mod n, altered_ciphertext = ciphertext * encrypt(2) mod n
Alter41 ==
    /\ c41.pc = "new"
    /\ Step41([c41 EXCEPT !.pc = "altered",
                          !.t = InvMod(2, c41.rsa.n),
                          !.altered_ciphertext =
                              MulMod(c41.ciphertext, RsaEncrypt(c41.rsa, 2), c41.rsa.n)])

\* run: server.decrypt(&altered_ciphertext).ok_or_else(..)?
Decrypt41 ==
    /\ c41.pc = "altered"
    /\ LET a == ServerDecrypt(c41, c41.altered_ciphertext)
       IN  IF a = None
           THEN Step41([c41 EXCEPT !.pc = "done", !.result = Err])
           ELSE Step41([c41 EXCEPT !.pc = "decrypted", !.altered_cleartext = a.val])

\* run: cleartext = altered_cleartext * t mod n; server.verify_solution
Verify41 ==
    /\ c41.pc = "decrypted"
    /\ Step41([c41 EXCEPT !.pc = "done",
                          !.result = ServerVerifySolution(c41,
                              RecoveredCleartext(c41.altered_cleartext, c41.t,
                                                 c41.rsa.n))])

Next41 ==
    \/ Query41
    \/ Alter41
    \/ Decrypt41
    \/ Verify41

Spec41 == Init41 /\ [][Next41]_vars

(***************************************************************************)
(* dh/src/server.rs: Server::new runs the handshake on a stream and wraps  *)
(* the stream and the derived key; the Server then sends and receives      *)
(* through the stream's encrypted calls.                                   *)
(*   dh = [pc, a, p, g, A, server, log]                                    *)
(* log is the sequence of the calls made on the stream, each a record      *)
(*   [kind, out, key]: the call, its outcome, the key passed to it.        *)
(***************************************************************************)
\* number of encrypted calls made on a Server
MaxTraffic == 3

\* the values a peer sends for p, for g and for its public key
DhPrimes == {23, 47}

DhGenerators == {2, 5}

DhPeerKeys == {1, 4, 18}

\* the private exponents DH::new draws
DhSecrets == {3, 6}

\* DH::public_key: g^a mod p
DhPublicKey(a, p, g) == ModExp(g, a, p)

\* DH::shared_key: the key derived from B^a mod p
DhSharedKey(a, p, B) == <<"key", ModExp(B, a, p)>>

\* the key of a call that takes none
NoKey == <<"none">>

\* no Server value
NoServer == [exists |-> FALSE]

\* Communicate::receive: a message, the end of the stream, or an error
ReceiveOutcomes(msgs) == {Ok(Some(m)) : m \in msgs} \cup {Ok(None), Err}

\* Communicate::send of the message m: done, or an error
SendOutcomes(m) == {Ok(m), Err}

\* Server::new wrapping whatever handshake returned
DhServerNewUnchecked(h) == [exists |-> TRUE, key |-> IF IsOk(h) THEN h.val ELSE NoKey]

\* Server::new: handshake(&mut stream).map(|key| Server { stream, key })
DhServerNew(h) == IF IsOk(h) THEN [exists |-> TRUE, key |-> h.val] ELSE NoServer

DhStart(a) ==
    [pc |-> "start", a |-> a, p |-> 0, g |-> 0, A |-> 0, server |-> NoServer,
     log |-> <<>>]

InitDh ==
    /\ \E a \in DhSecrets : dh = DhStart(a)
    /\ oracle = Idle
    /\ op = "idle"
    /\ res = Ok(0)
    /\ u = <<>>
    /\ ser_op = "idle"
    /\ ser_res = Ok(0)
    /\ bb = Idle
    /\ c41 = Idle

DhStep(next) ==
    /\ dh' = next
    /\ UNCHANGED <<oracle, op, res, u, ser_op, ser_res, bb, c41>>

\* the call `kind` on the stream with outcome out and key k, logged
Logged(kind, out, k) ==
    [dh EXCEPT !.log = Append(dh.log, [kind |-> kind, out |-> out, key |-> k])]

\* stream.receive()?.unwrap() failing: `?` returns the error through
\* Server::new, unwrap of None panics
ReceiveFailed(d, out) ==
    IF out = Err THEN [d EXCEPT !.pc = "err", !.server = DhServerNew(Err)]
    ELSE [d EXCEPT !.pc = "panic"]

\* let p = stream.receive()?.unwrap()
ReceiveP ==
    /\ dh.pc = "start"
    /\ \E out \in ReceiveOutcomes(DhPrimes) :
         LET d == Logged("receive", out, NoKey)
         IN  IF IsOk(out) /\ out.val # None
             THEN DhStep([d EXCEPT !.pc = "got_p", !.p = out.val.val])
             ELSE DhStep(ReceiveFailed(d, out))

\* let g = stream.receive()?.unwrap()
ReceiveG ==
    /\ dh.pc = "got_p"
    /\ \E out \in ReceiveOutcomes(DhGenerators) :
         LET d == Logged("receive", out, NoKey)
         IN  IF IsOk(out) /\ out.val # None
             THEN DhStep([d EXCEPT !.pc = "got_g", !.g = out.val.val])
             ELSE DhStep(ReceiveFailed(d, out))

\* dh.init_with_parameters(p, g); let A = dh.public_key(); stream.send(&A)?
SendA ==
    /\ dh.pc = "got_g"
    /\ \E out \in SendOutcomes(DhPublicKey(dh.a, dh.p, dh.g)) :
         LET d == Logged("send", out, NoKey)
         IN  IF IsOk(out)
             THEN DhStep([d EXCEPT !.pc = "sent_A", !.A = out.val])
             ELSE DhStep([d EXCEPT !.pc = "err", !.server = DhServerNew(Err)])

\* let B = stream.receive()?.unwrap(); Ok(dh.shared_key(&B)), and the Server
\* Server::new makes of it
ReceiveB ==
    /\ dh.pc = "sent_A"
    /\ \E out \in ReceiveOutcomes(DhPeerKeys) :
         LET d == Logged("receive", out, NoKey)
         IN  IF IsOk(out) /\ out.val # None
             THEN DhStep([d EXCEPT !.pc = "server",
                                   !.server = DhServerNew(
                                       Ok(DhSharedKey(dh.a, dh.p, out.val.val)))])
             ELSE DhStep(ReceiveFailed(d, out))

\* Server::send: self.stream.send_encr(message, &self.key)
ServerSend ==
    /\ dh.server.exists
    /\ Len(dh.log) < 4 + MaxTraffic
    /\ \E out \in SendOutcomes(0) :
         DhStep(Logged("send_encr", out, dh.server.key))

\* Server::receive: self.stream.receive_encr(&self.key)
ServerReceive ==
    /\ dh.server.exists
    /\ Len(dh.log) < 4 + MaxTraffic
    /\ \E out \in ReceiveOutcomes({0}) :
         DhStep(Logged("receive_encr", out, dh.server.key))

NextDh ==
    \/ ReceiveP
    \/ ReceiveG
    \/ SendA
    \/ ReceiveB
    \/ ServerSend
    \/ ServerReceive

SpecDh == InitDh /\ [][NextDh]_vars

(***************************************************************************)
(* Properties of the interval-narrowing engine.                            *)
(***************************************************************************)
\* C4: whenever the loop reaches its terminal state (M_i has exactly one
\* interval with equal endpoints), that endpoint is the padded plaintext m
\* that was attacked, so the final comparison against m succeeds.
C4_TerminalIsPlaintext ==
    bb.pc = "done" =>
        /\ bb.M = <<<<bb.m, bb.m>>>>
        /\ bb.result = Ok(bb.m)

\* the terminal state, reached through the single-interval branch 2.c
C4_Witness ==
    /\ bb.pc = "done"
    /\ bb.ri > 0
    /\ IsTerminal(bb.M)
    /\ bb.result = Ok(bb.m)

\* C5: starting from M_0 = {[2B, 3B-1]}, after every iteration the true
\* plaintext m lies in at least one interval of M_i.
C5_PlaintextContained ==
    bb.pc \in {"step2", "search", "search_c", "step3", "done"} =>
        \E j \in 1..Len(bb.M) : bb.M[j][1] <= bb.m /\ bb.m <= bb.M[j][2]

\* after some iterations, with several intervals left, m is in one of them
C5_Witness ==
    /\ bb.pc = "step2"
    /\ bb.i >= 2
    /\ Len(bb.M) >= 2
    /\ \E j \in 1..Len(bb.M) : bb.M[j][1] <= bb.m /\ bb.m <= bb.M[j][2]

\* C6: against the honest padding oracle the loop eventually reaches the
\* terminal state: every multiplier search finds an accepted multiplier and
\* the candidate set collapses to a single point.
C6_EventuallyTerminal == <>(bb.pc = "done")

\* the terminal state after a second search that went beyond s_1
C6_Witness ==
    /\ bb.pc = "done"
    /\ bb.i >= 2
    /\ bb.s_prev > 1
    /\ bb.si > bb.s_prev

\* C12: across every iteration the candidate set only shrinks: each interval
\* of M_i is a sub-interval of some interval of M_{i-1}.
C12_OnlyShrinks ==
    [][bb.pc = "step3" =>
        \A j \in 1..Len(bb'.M) :
            \E k \in 1..Len(bb.M) :
                bb.M[k][1] <= bb'.M[j][1] /\ bb'.M[j][2] <= bb.M[k][2]]_vars

\* after an update that left one interval, strictly inside [2B, 3B - 1]
C12_Witness ==
    /\ bb.pc = "step2"
    /\ bb.i = 2
    /\ Len(bb.M) = 1
    /\ bb.M[1][1] > 2 * bb.B
    /\ bb.M[1][2] < 3 * bb.B - 1

C14_MultipliersIncrease ==
    [][/\ (bb.pc \in {"search", "search_c"} /\ bb'.pc = "step3" /\ bb.i > 1)
            => bb'.si > bb.s_prev
       /\ (bb.pc = "search_c" /\ bb'.pc = "search_c")
            => /\ bb'.ri >= bb.ri
               /\ (bb'.ri > bb.ri \/ bb'.si > bb.si)]_vars

\* a multiplier found by step 2.b, beyond the previous one
C14_Witness ==
    /\ bb.pc = "step3"
    /\ bb.i >= 2
    /\ Len(bb.M) >= 2
    /\ bb.si > bb.s_prev

\* the multiplier the linear search of the current iteration started from
SearchStart == IF bb.i = 1 THEN ceil_quotient(bb.rsa.n, 3 * bb.B) ELSE bb.s_prev + 1

\* C15: in the linear searches the first acceptance in increasing order
\* wins: s_1 is the smallest accepted integer >= ceil(n / 3B), and with at
\* least two intervals s_i is the smallest accepted integer >= s_{i-1} + 1.
C15_FirstAcceptanceWins ==
    (bb.pc = "step3" /\ (bb.i = 1 \/ Len(bb.M) >= 2)) =>
        /\ bb.si >= SearchStart
        /\ wrapped_oracle(bb.rsa, bb.c, bb.si)
        /\ \A sv \in SearchStart..(bb.si - 1) : ~wrapped_oracle(bb.rsa, bb.c, sv)

\* step 2.b found its multiplier after rejections spanning several windows
C15_Witness ==
    /\ bb.pc = "step3"
    /\ bb.i >= 2
    /\ Len(bb.M) >= 2
    /\ bb.si > bb.s_prev + SearchWindow
    /\ wrapped_oracle(bb.rsa, bb.c, bb.si)

\* C16: when the oracle never accepts a multiplier in the single-interval
\* branch, the engine surfaces a failure once an iteration cap is exceeded:
\* the search of step 2.c is never still running with its multiplier beyond
\* the cap.
C16_SearchIsCapped ==
    bb.pc = "search_c" => bb.si <= MaxMultiplier

(***************************************************************************)
(* Claims about set6/challenge41.rs                                        *)
(***************************************************************************)
\* C19: Server::decrypt returns no plaintext if and only if the submitted
\* ciphertext equals the stored ciphertext, and the RSA decryption of every
\* other ciphertext; in run the refusal is returned to the caller as an
\* error.
C19_RefusesExactlyTheTarget ==
    /\ c41.pc # "idle" /\ c41.asked # NoQuery =>
          /\ c41.answer = None <=> c41.asked = c41.ciphertext
          /\ c41.asked # c41.ciphertext =>
                c41.answer = Some(RsaDecrypt(c41.rsa, c41.asked))
    /\ c41.pc = "decrypted" =>
          /\ c41.altered_ciphertext # c41.ciphertext
          /\ c41.altered_cleartext = RsaDecrypt(c41.rsa, c41.altered_ciphertext)
    /\ c41.pc = "done" /\ c41.altered_ciphertext = c41.ciphertext =>
          c41.result = Err

\* run has submitted the stored ciphertext itself and returned the error
C19_Witness ==
    /\ c41.pc = "done"
    /\ c41.altered_ciphertext = c41.ciphertext
    /\ c41.result = Err
    /\ c41.asked = c41.ciphertext + c41.rsa.n
    /\ c41.answer = Some(c41.cleartext)

\* C20: when the altered ciphertext c * encrypt(2) mod n differs from c,
\* decrypt(altered) * inverse(2) mod n is the cleartext m, and
\* verify_solution succeeds.
C20_RecoversCleartext ==
    (c41.pc = "done" /\ c41.altered_ciphertext # c41.ciphertext) =>
        /\ IsOk(c41.result)
        /\ MulMod(c41.altered_cleartext, c41.t, c41.rsa.n) = c41.cleartext
        /\ c41.altered_cleartext = (2 * c41.cleartext) % c41.rsa.n

\* a cleartext whose double exceeds the modulus
C20_Witness ==
    /\ c41.pc = "done"
    /\ c41.altered_ciphertext # c41.ciphertext
    /\ 2 * c41.cleartext > c41.rsa.n
    /\ IsOk(c41.result)

(***************************************************************************)
(* Claims about dh/src/server.rs                                           *)
(***************************************************************************)
\* the calls of the handshake, in order
HandshakeOrder == <<"receive", "receive", "send", "receive">>

\* the call logged at position i returned a value
Succeeded(i) ==
    /\ IsOk(dh.log[i].out)
    /\ dh.log[i].kind = "receive" => dh.log[i].out.val # None

\* C21: the handshake makes its calls in the order receive p, receive g,
\* send A, receive B; a Server exists only after all four succeeded; no
\* encrypted send or receive happens before that; and every later send or
\* receive uses the one key derived in that handshake.
C21_HandshakeThenTraffic ==
    dh.pc # "idle" =>
        /\ \A i \in 1..Len(dh.log) :
              IF i <= 4
              THEN /\ dh.log[i].kind = HandshakeOrder[i]
                   /\ \A k \in 1..(i - 1) : Succeeded(k)
              ELSE /\ dh.log[i].kind \in {"send_encr", "receive_encr"}
                   /\ dh.server.exists
                   /\ dh.log[i].key = dh.server.key
        /\ dh.server.exists =>
              /\ Len(dh.log) >= 4
              /\ \A i \in 1..4 : Succeeded(i)
              /\ dh.log[3].out.val =
                    DhPublicKey(dh.a, dh.log[1].out.val.val, dh.log[2].out.val.val)
              /\ dh.server.key =
                    DhSharedKey(dh.a, dh.log[1].out.val.val, dh.log[4].out.val.val)

\* a Server that has sent and received after its handshake
C21_Witness ==
    /\ dh.pc = "server"
    /\ dh.server.exists
    /\ Len(dh.log) >= 6
    /\ \E i, j \in 5..Len(dh.log) :
          /\ dh.log[i].kind = "send_encr"
          /\ dh.log[j].kind = "receive_encr"
          /\ dh.log[i].key = DhSharedKey(dh.a, dh.p, dh.log[4].out.val.val)

(***************************************************************************)
(* Claims about from_base64 on arbitrary strings, checked under SpecDecode *)
(***************************************************************************)
InAlphabet(c) == \E i \in 1..Len(TO_BASE64) : TO_BASE64[i] = c

DigitOf(c) == (CHOOSE i \in 1..Len(TO_BASE64) : TO_BASE64[i] = c) - 1

\* the number of trailing '=' characters, two at most
TrailingPads(str) ==
    IF Len(str) >= 1 /\ str[Len(str)] = PadChar
    THEN IF Len(str) >= 2 /\ str[Len(str) - 1] = PadChar THEN 2 ELSE 1
    ELSE 0

\* the reasons for which from_base64 refuses a string
NotCanonical(str) ==
    LET n == Len(str) - TrailingPads(str)
    IN  \/ Len(str) % 4 # 0
        \/ \E i \in 1..n : ~InAlphabet(str[i])
        \/ /\ TrailingPads(str) = 2
           /\ DigitOf(str[n]) % 16 # 0
        \/ /\ TrailingPads(str) = 1
           /\ DigitOf(str[n]) % 4 # 0

\* C22: for every string s, from_base64(s) either returns an error (length
\* not a multiple of 4, a character outside the alphabet before the trailing
\* padding, non-zero unused bits in the last digit before the padding) or
\* returns bytes whose to_base64 is s; it never panics.
C22_DecodesOnlyCanonical ==
    /\ ser_op = "decode" =>
          \/ ser_res = Err /\ NotCanonical(u)
          \/ IsOk(ser_res) /\ ~NotCanonical(u)
    /\ ser_op = "reencode" => ser_res = Ok(u)


====
